---- MODULE Spec2Model ----
(***************************************************************************)
(* A model of pkg/queue/protobuf_stats_reporter.go: one shared             *)
(* ProtobufStatsReporter, producers that call Report and scrapers that     *)
(* call ServeHTTP, all running concurrently.                               *)
(*                                                                         *)
(* float64 values are modelled as fractions <<n, d>> in lowest terms with  *)
(* d > 0; <<1, 0>> is +Inf, <<-1, 0>> is -Inf and <<0, 0>> is NaN. The     *)
(* sign of zero and the rounding of quotients that have no exact float64   *)
(* are not modelled. Instants and durations are counted in milliseconds.   *)
(***************************************************************************)
EXTENDS Integers, Sequences, FiniteSets, TLC

VARIABLES
    podName,                \* r.podName
    startTime,              \* r.startTime
    reportingPeriodSeconds, \* r.reportingPeriodSeconds
    stat,                   \* r.stat, the atomic.Value
    now,                    \* the process clock
    pcR,                    \* where each producer is in Report
    built,                  \* the metrics.Stat a Report call has built
    pcS,                    \* where each scraper is in ServeHTTP
    loaded,                 \* ServeHTTP's local `stat`
    rsp,                    \* the http.ResponseWriter of each scraper's call
    ctorArgs,               \* history: the constructor's arguments
    arg,                    \* history: the report a Report call was given
    log,                    \* history: the Store calls, in order, each with
                            \* the call's number, its report, the value it
                            \* built, and whether an error came before it
    nCalls,                 \* history: number of Report calls started
    overlapped,             \* history: two Report calls have overlapped
    failed,                 \* history: a ServeHTTP call has ended in an error
    timed,                  \* history: whether begin and served are kept
    served,                 \* history: the latest store a completed ServeHTTP
                            \* call has answered with (its place in log)
    obs                     \* history: what each ServeHTTP call observed

reporter == <<podName, startTime, reportingPeriodSeconds>>
vars == <<podName, startTime, reportingPeriodSeconds, stat, now, pcR, built,
          pcS, loaded, rsp, ctorArgs, arg, log, nCalls, overlapped,
          failed, timed, served, obs>>

---------------------------------------------------------------------------
(* Bounds of the model *)

MaxReports == 2     \* Report calls in one behaviour
MaxTicks == 1       \* clock advances in one behaviour

Producers == {"p1", "p2"}
Scrapers == {"s1", "s2"}

\* The one periodic producer of the queue proxy, and one scraper.
Timer == {"p1"}
Autoscaler == {"s1"}

---------------------------------------------------------------------------
(* float64 *)

Abs(n) == IF n < 0 THEN -n ELSE n
Max(a, b) == IF a >= b THEN a ELSE b

RECURSIVE GCD(_, _)
GCD(a, b) == IF b = 0 THEN a ELSE GCD(b, a % b)

\* The fraction n/d, d > 0, in lowest terms.
Norm(n, d) == LET g == GCD(Abs(n), d) IN <<n \div g, d \div g>>

F(n) == <<n, 1>>
Zero == F(0)
PosInf == <<1, 0>>
NegInf == <<-1, 0>>
NaN == <<0, 0>>

IsFinite(x) == x[2] # 0

\* x / y on float64: a finite quotient, or the infinities and NaN of IEEE 754.
FDiv(x, y) ==
    LET n == x[1] * y[2]
        m == x[2] * y[1]
    IN  IF m # 0 THEN (IF m > 0 THEN Norm(n, m) ELSE Norm(-n, -m))
        ELSE IF n = 0 THEN NaN
        ELSE IF (n > 0) = (y[1] >= 0) THEN PosInf ELSE NegInf

\* x > y on float64 (false when either is NaN).
FGt(x, y) ==
    /\ x # NaN /\ y # NaN
    /\ IF IsFinite(x) /\ IsFinite(y) THEN x[1] * y[2] > y[1] * x[2]
       ELSE x # y /\ (x = PosInf \/ y = NegInf)

---------------------------------------------------------------------------
(* time *)

Second == 1000      \* time.Second, in the model's milliseconds

\* time.Duration.Seconds(): the duration as a float64 number of seconds.
Seconds(d) == Norm(d, Second)

\* The time left until t, where the time passed since t is meant.
Until(t, clock) == Seconds(t - clock)

\* time.Since(t).Seconds() read when the clock shows `clock`.
Since(t, clock) == Seconds(clock - t)

---------------------------------------------------------------------------
(* Inputs *)

\* The (pod, reportingPeriod) arguments NewProtobufStatsReporter is given.
Constructions ==
    { <<"pod-a", 60 * Second>>, <<"", Second \div 2>>,
      <<"pod-b", 0>>, <<"pod-a", -Second>> }

\* network.RequestStatsReport values handed to Report.
RequestStatsReports ==
    { [RequestCount |-> F(120), ProxiedRequestCount |-> Zero,
       AverageConcurrency |-> F(2), AverageProxiedConcurrency |-> Zero],
      [RequestCount |-> F(-30), ProxiedRequestCount |-> PosInf,
       AverageConcurrency |-> <<3, 2>>, AverageProxiedConcurrency |-> NaN] }

\* Error texts the codec can fail with.
EncoderErrors == {"proto: invalid UTF-8 string"}

---------------------------------------------------------------------------
(* The snapshot cell: atomic.Value *)

Nil == [nil |-> TRUE]

\* A store that is not atomic: a reader can find the new value's counts
\* beside the old value's uptime and concurrency.
StoreTorn(old, val) ==
    IF old = Nil THEN val
    ELSE [old EXCEPT !.RequestCount = val.RequestCount,
                     !.ProxiedRequestCount = val.ProxiedRequestCount]

\* A store that keeps the value already held.
StoreOnce(old, val) == IF old = Nil THEN val ELSE old

\* A store that keeps whichever value was built later, not the one stored
\* last.
StoreLatestBuilt(old, val) ==
    IF old # Nil /\ FGt(old.ProcessUptime, val.ProcessUptime)
    THEN old ELSE val

\* atomic.Value.Store: the cell's content after storing val over old.
Store(old, val) == val

\* atomic.Value.Load: what a load of the cell returns.
Load(cell) == cell

---------------------------------------------------------------------------
(* metrics.Stat and its wire form *)

\* proto.Marshal(&data): the fields that differ from their zero value, each
\* tagged with its field number, in field order.
Marshal(data) ==
    LET opt(tag, v, zero) == IF v = zero THEN <<>> ELSE <<<<tag, v>>>>
    IN  opt(1, data.PodName, "")
        \o opt(2, data.AverageConcurrentRequests, Zero)
        \o opt(3, data.AverageProxiedConcurrentRequests, Zero)
        \o opt(4, data.RequestCount, Zero)
        \o opt(5, data.ProxiedRequestCount, Zero)
        \o opt(6, data.ProcessUptime, Zero)

\* proto.Unmarshal: the metrics.Stat a scraper decodes from a body.
Unmarshal(buffer) ==
    LET get(tag, zero) ==
            IF \E i \in 1..Len(buffer) : buffer[i][1] = tag
            THEN buffer[CHOOSE i \in 1..Len(buffer) : buffer[i][1] = tag][2]
            ELSE zero
    IN  [PodName |-> get(1, ""),
         AverageConcurrentRequests |-> get(2, Zero),
         AverageProxiedConcurrentRequests |-> get(3, Zero),
         RequestCount |-> get(4, Zero),
         ProxiedRequestCount |-> get(5, Zero),
         ProcessUptime |-> get(6, Zero)]

---------------------------------------------------------------------------
(* HTTP *)

contentTypeHeader == "Content-Type"
ProtoAcceptContent == "application/protobuf"
StatusOK == 200
StatusInternalServerError == 500
ErrorPrefix == "An error has occurred while serving metrics:\n\n"
NoMetricsYet == "no metrics available yet"

\* A ResponseWriter nothing has been written to.
NoResponse == [code |-> 0, header |-> <<>>, body |-> ""]

\* http.Error(w, error, code): plain-text headers, the status, and the error
\* text printed as one line.
Error(error, code) ==
    [code |-> code,
     header |-> (contentTypeHeader :> "text/plain; charset=utf-8")
                @@ ("X-Content-Type-Options" :> "nosniff"),
     body |-> error \o "\n"]

\* An error response that leaves out the explanatory prefix.
httpErrorBare(errMsg) == Error(errMsg, StatusInternalServerError)

httpError(errMsg) == Error(ErrorPrefix \o errMsg, StatusInternalServerError)

\* header.Set(contentTypeHeader, ...) then w.Write(buffer) on a fresh writer.
Written(buffer) ==
    [code |-> StatusOK,
     header |-> (contentTypeHeader :> ProtoAcceptContent),
     body |-> buffer]

---------------------------------------------------------------------------
(* The reporter *)

NewProtobufStatsReporter(pod, reportingPeriod, clock) ==
    [startTime |-> clock,
     podName |-> pod,
     reportingPeriodSeconds |-> Seconds(reportingPeriod)]

\* A Report that publishes the counts as they come, not as rates.
ReportStatNoRate(stats, clock) ==
    [PodName |-> podName,
     ProcessUptime |-> Since(startTime, clock),
     RequestCount |-> stats.RequestCount,
     ProxiedRequestCount |-> stats.ProxiedRequestCount,
     AverageConcurrentRequests |-> stats.AverageConcurrency,
     AverageProxiedConcurrentRequests |-> stats.AverageProxiedConcurrency]

\* A Report that divides the concurrency averages by the period as well.
ReportStatDivAll(stats, clock) ==
    [PodName |-> podName,
     ProcessUptime |-> Since(startTime, clock),
     RequestCount |-> FDiv(stats.RequestCount, reportingPeriodSeconds),
     ProxiedRequestCount |->
         FDiv(stats.ProxiedRequestCount, reportingPeriodSeconds),
     AverageConcurrentRequests |->
         FDiv(stats.AverageConcurrency, reportingPeriodSeconds),
     AverageProxiedConcurrentRequests |->
         FDiv(stats.AverageProxiedConcurrency, reportingPeriodSeconds)]

\* A Report that leaves PodName unset.
ReportStatNoPod(stats, clock) ==
    [PodName |-> "",
     ProcessUptime |-> Since(startTime, clock),
     RequestCount |-> FDiv(stats.RequestCount, reportingPeriodSeconds),
     ProxiedRequestCount |->
         FDiv(stats.ProxiedRequestCount, reportingPeriodSeconds),
     AverageConcurrentRequests |-> stats.AverageConcurrency,
     AverageProxiedConcurrentRequests |-> stats.AverageProxiedConcurrency]

\* The metrics.Stat literal of Report, evaluated when the clock shows `clock`.
ReportStat(stats, clock) ==
    [PodName |-> podName,
     ProcessUptime |-> Since(startTime, clock),
     RequestCount |-> FDiv(stats.RequestCount, reportingPeriodSeconds),
     ProxiedRequestCount |->
         FDiv(stats.ProxiedRequestCount, reportingPeriodSeconds),
     AverageConcurrentRequests |-> stats.AverageConcurrency,
     AverageProxiedConcurrentRequests |-> stats.AverageProxiedConcurrency]

NoObs == [begin |-> 0, load |-> 0, encoded |-> FALSE, err |-> ""]

\* The state after construction; keep says whether the history of when
\* calls begin and what they have answered with is kept.
Constructed(keep) ==
    /\ now = 0
    /\ timed = keep
    /\ \E c \in Constructions :
          LET r == NewProtobufStatsReporter(c[1], c[2], now)
          IN  /\ podName = r.podName
              /\ startTime = r.startTime
              /\ reportingPeriodSeconds = r.reportingPeriodSeconds
              /\ ctorArgs = [pod |-> c[1], reportingPeriod |-> c[2]]
    /\ stat = Nil
    /\ pcR = [p \in Producers |-> "idle"]
    /\ built = [p \in Producers |-> Nil]
    /\ arg = [p \in Producers |-> Nil]
    /\ pcS = [s \in Scrapers |-> "idle"]
    /\ loaded = [s \in Scrapers |-> Nil]
    /\ rsp = [s \in Scrapers |-> NoResponse]
    /\ log = <<>>
    /\ nCalls = 0
    /\ overlapped = FALSE
    /\ failed = FALSE
    /\ served = 0
    /\ obs = [s \in Scrapers |-> NoObs]

Init == Constructed(FALSE)

InitRace == Constructed(TRUE)

\* The clock advances.
Tick ==
    /\ now < MaxTicks * (Second \div 2)
    /\ now' = now + Second \div 2
    /\ UNCHANGED <<podName, startTime, reportingPeriodSeconds, stat, pcR,
                   built, pcS, loaded, rsp, ctorArgs, arg, log, nCalls,
                   overlapped, failed, timed, served, obs>>

\* A Report that restarts the uptime: it moves startTime to the time of the
\* call.
ReportBuildRestart(p, stats) ==
    /\ pcR[p] = "idle"
    /\ nCalls < MaxReports
    /\ built' = [built EXCEPT ![p] = ReportStat(stats, now)]
    /\ startTime' = now
    /\ arg' = [arg EXCEPT ![p] = [id |-> nCalls + 1, stats |-> stats]]
    /\ pcR' = [pcR EXCEPT ![p] = "store"]
    /\ nCalls' = nCalls + 1
    /\ overlapped' = (overlapped \/ \E q \in Producers : pcR[q] = "store")
    /\ UNCHANGED <<podName, reportingPeriodSeconds, stat, now,
                   pcS, loaded, rsp, ctorArgs, log, failed, timed, served,
                   obs>>

\* Report is called with stats and evaluates its metrics.Stat literal.
ReportBuild(p, stats) ==
    /\ pcR[p] = "idle"
    /\ nCalls < MaxReports
    /\ built' = [built EXCEPT ![p] = ReportStat(stats, now)]
    /\ arg' = [arg EXCEPT ![p] = [id |-> nCalls + 1, stats |-> stats]]
    /\ pcR' = [pcR EXCEPT ![p] = "store"]
    /\ nCalls' = nCalls + 1
    /\ overlapped' = (overlapped \/ \E q \in Producers : pcR[q] = "store")
    /\ UNCHANGED <<podName, startTime, reportingPeriodSeconds, stat, now,
                   pcS, loaded, rsp, ctorArgs, log, failed, timed, served,
                   obs>>

\* A Report that stores under a lock another running call holds.
ReportStoreLocked(p) ==
    /\ pcR[p] = "store"
    /\ \A q \in Producers \ {p} : pcR[q] # "store"
    /\ stat' = Store(stat, built[p])
    /\ log' = Append(log, [id |-> arg[p].id, stats |-> arg[p].stats,
                           stat |-> built[p], afterError |-> failed])
    /\ pcR' = [pcR EXCEPT ![p] = "idle"]
    /\ built' = [built EXCEPT ![p] = Nil]
    /\ arg' = [arg EXCEPT ![p] = Nil]
    /\ UNCHANGED <<podName, startTime, reportingPeriodSeconds, now, pcS,
                   loaded, rsp, ctorArgs, nCalls, overlapped, failed, timed,
                   served, obs>>

\* A Report that validates: it returns without storing a value that has a
\* negative or non-finite field.
ReportStoreValidated(p) ==
    /\ pcR[p] = "store"
    /\ stat' = IF \A f \in {"RequestCount", "ProxiedRequestCount",
                            "AverageConcurrentRequests",
                            "AverageProxiedConcurrentRequests"} :
                      IsFinite(built[p][f]) /\ built[p][f][1] >= 0
               THEN Store(stat, built[p])
               ELSE stat
    /\ log' = Append(log, [id |-> arg[p].id, stats |-> arg[p].stats,
                           stat |-> built[p], afterError |-> failed])
    /\ pcR' = [pcR EXCEPT ![p] = "idle"]
    /\ built' = [built EXCEPT ![p] = Nil]
    /\ arg' = [arg EXCEPT ![p] = Nil]
    /\ UNCHANGED <<podName, startTime, reportingPeriodSeconds, now, pcS,
                   loaded, rsp, ctorArgs, nCalls, overlapped, failed, timed,
                   served, obs>>

\* r.stat.Store(...), after which Report returns.
ReportStore(p) ==
    /\ pcR[p] = "store"
    /\ stat' = Store(stat, built[p])
    /\ log' = Append(log, [id |-> arg[p].id, stats |-> arg[p].stats,
                           stat |-> built[p], afterError |-> failed])
    /\ pcR' = [pcR EXCEPT ![p] = "idle"]
    /\ built' = [built EXCEPT ![p] = Nil]
    /\ arg' = [arg EXCEPT ![p] = Nil]
    /\ UNCHANGED <<podName, startTime, reportingPeriodSeconds, now, pcS,
                   loaded, rsp, ctorArgs, nCalls, overlapped, failed, timed,
                   served, obs>>

\* The server dispatches a request to ServeHTTP with a fresh ResponseWriter.
ServeCall(s) ==
    /\ pcS[s] \in {"idle", "done"}
    /\ pcS' = [pcS EXCEPT ![s] = "load"]
    /\ rsp' = [rsp EXCEPT ![s] = NoResponse]
    /\ loaded' = [loaded EXCEPT ![s] = Nil]
    /\ obs' = [obs EXCEPT ![s] =
                  [NoObs EXCEPT !.begin = IF timed THEN Len(log) ELSE 0]]
    /\ UNCHANGED <<podName, startTime, reportingPeriodSeconds, stat, now,
                   pcR, built, ctorArgs, arg, log, nCalls, overlapped,
                   failed, timed, served>>

\* A load that takes the value out of the cell.
ServeLoadTake(s) ==
    /\ pcS[s] = "load"
    /\ loaded' = [loaded EXCEPT ![s] = Load(stat)]
    /\ stat' = Nil
    /\ pcS' = [pcS EXCEPT ![s] = "respond"]
    /\ obs' = [obs EXCEPT ![s].load = Len(log)]
    /\ UNCHANGED <<podName, startTime, reportingPeriodSeconds, now,
                   pcR, built, rsp, ctorArgs, arg, log, nCalls, overlapped,
                   failed, timed, served>>

\* stat := r.stat.Load()
ServeLoad(s) ==
    /\ pcS[s] = "load"
    /\ loaded' = [loaded EXCEPT ![s] = Load(stat)]
    /\ pcS' = [pcS EXCEPT ![s] = "respond"]
    /\ obs' = [obs EXCEPT ![s].load = Len(log)]
    /\ UNCHANGED <<podName, startTime, reportingPeriodSeconds, stat, now,
                   pcR, built, rsp, ctorArgs, arg, log, nCalls, overlapped,
                   failed, timed, served>>

\* A ServeHTTP that goes on to write the buffer after an encode error.
ServeRespondWriteAnyway(s, encErr) ==
    /\ pcS[s] = "respond"
    /\ IF loaded[s] = Nil
       THEN /\ encErr = ""
            /\ rsp' = [rsp EXCEPT ![s] = httpError(NoMetricsYet)]
            /\ obs' = obs
            /\ failed' = TRUE
            /\ served' = served
       ELSE /\ obs' = [obs EXCEPT ![s].encoded = TRUE, ![s].err = encErr]
            /\ rsp' = [rsp EXCEPT ![s] = Written(Marshal(loaded[s]))]
            /\ failed' = (failed \/ encErr # "")
            /\ served' = IF timed THEN Max(served, obs[s].load) ELSE served
    /\ pcS' = [pcS EXCEPT ![s] = "done"]
    /\ UNCHANGED <<podName, startTime, reportingPeriodSeconds, stat, now,
                   pcR, built, loaded, ctorArgs, arg, log, nCalls,
                   overlapped, timed>>

\* A ServeHTTP that drops the held value when it answers with an error.
ServeRespondPoison(s, encErr) ==
    /\ pcS[s] = "respond"
    /\ IF loaded[s] = Nil
       THEN /\ encErr = ""
            /\ rsp' = [rsp EXCEPT ![s] = httpError(NoMetricsYet)]
            /\ obs' = obs
            /\ failed' = TRUE
            /\ served' = served
            /\ stat' = stat
       ELSE /\ obs' = [obs EXCEPT ![s].encoded = TRUE, ![s].err = encErr]
            /\ IF encErr # ""
               THEN /\ rsp' = [rsp EXCEPT ![s] = httpError(encErr)]
                    /\ failed' = TRUE
                    /\ served' = served
                    /\ stat' = Nil
               ELSE /\ rsp' = [rsp EXCEPT ![s] = Written(Marshal(loaded[s]))]
                    /\ failed' = failed
                    /\ served' = IF timed THEN Max(served, obs[s].load) ELSE served
                    /\ stat' = stat
    /\ pcS' = [pcS EXCEPT ![s] = "done"]
    /\ UNCHANGED <<podName, startTime, reportingPeriodSeconds, now,
                   pcR, built, loaded, ctorArgs, arg, log, nCalls,
                   overlapped, timed>>

\* The rest of ServeHTTP: the nil check, proto.Marshal and the response.
\* encErr is the codec's verdict on the loaded value, "" for a nil error.
ServeRespond(s, encErr) ==
    /\ pcS[s] = "respond"
    /\ IF loaded[s] = Nil
       THEN /\ encErr = ""
            /\ rsp' = [rsp EXCEPT ![s] = httpError(NoMetricsYet)]
            /\ obs' = obs
            /\ failed' = TRUE
            /\ served' = served
       ELSE /\ obs' = [obs EXCEPT ![s].encoded = TRUE, ![s].err = encErr]
            /\ IF encErr # ""
               THEN /\ rsp' = [rsp EXCEPT ![s] = httpError(encErr)]
                    /\ failed' = TRUE
                    /\ served' = served
               ELSE /\ rsp' = [rsp EXCEPT ![s] = Written(Marshal(loaded[s]))]
                    /\ failed' = failed
                    /\ served' = IF timed THEN Max(served, obs[s].load) ELSE served
    /\ pcS' = [pcS EXCEPT ![s] = "done"]
    /\ UNCHANGED <<podName, startTime, reportingPeriodSeconds, stat, now,
                   pcR, built, loaded, ctorArgs, arg, log, nCalls,
                   overlapped, timed>>

\* Calls by the processes Ps (of Report) and Ss (of ServeHTTP).
Calls(Ps, Ss) ==
    \/ Tick
    \/ \E p \in Ps, stats \in RequestStatsReports : ReportBuild(p, stats)
    \/ \E p \in Ps : ReportStore(p)
    \/ \E s \in Ss : ServeCall(s)
    \/ \E s \in Ss : ServeLoad(s)
    \/ \E s \in Ss, encErr \in EncoderErrors \cup {""} :
          ServeRespond(s, encErr)

\* The deployment: one producer reporting on a timer, concurrent scrapers.
Next == Calls(Timer, Scrapers)

Spec == Init /\ [][Next]_vars

\* Report called from several goroutines at once, with one scraper.
NextRace == Calls(Producers, Autoscaler)

SpecRace == InitRace /\ [][NextRace]_vars

\* Concurrent Report calls and a scraper, where the goroutines of producer
\* p1 and of scraper s1 keep being scheduled while they have a step to take;
\* producer p2 may stall for ever, also in the middle of a call.
Fairness ==
    /\ WF_vars(ReportStore("p1"))
    /\ WF_vars(ServeLoad("s1"))
    /\ WF_vars(\E encErr \in EncoderErrors \cup {""} :
                  ServeRespond("s1", encErr))

SpecLive == Init /\ [][NextRace]_vars /\ Fairness

---------------------------------------------------------------------------
(* Properties *)

Responded(s) == pcS[s] = "done"
Succeeded(s) == Responded(s) /\ rsp[s].code = StatusOK
Fetched(s) == pcS[s] \in {"respond", "done"}
Published == {log[k].stat : k \in 1..Len(log)}
Quiet == \A p \in Producers : pcR[p] = "idle"

\* C1. No tearing: under any interleaving of Report and ServeHTTP calls the
\* cell, every fetched value and every successful response's decoded body
\* is, whole, the value one single Report call built; a fetch sees nil or
\* such a value.
C1_NoTearing ==
    /\ stat = Nil \/ stat \in Published
    /\ \A s \in Scrapers :
          /\ Fetched(s) => (loaded[s] = Nil \/ loaded[s] \in Published)
          /\ Succeeded(s) => Unmarshal(rsp[s].body) \in Published

\* A scrape that fetched the first value while a second Report call, running
\* concurrently with another, went on to store a different one.
C1_Witness ==
    /\ overlapped /\ Len(log) = 2 /\ log[1].stat # log[2].stat
    /\ \E s \in Scrapers : Succeeded(s) /\ obs[s].load = 1

\* The no-data response as a scraper receives it.
NoDataBody ==
    "An error has occurred while serving metrics:\n\nno metrics available yet\n"

\* C2. Cold start: while no Report call has stored anything, every answer
\* of ServeHTTP is the no-data error: status 500, the body made of the fixed
\* prefix, "no metrics available yet" and the newline that ends the line,
\* never the protobuf content type or an encoded body, and proto.Marshal is
\* not called.
C2_ColdStart ==
    log = <<>> =>
        \A s \in Scrapers :
            Responded(s) =>
                /\ rsp[s].code = StatusInternalServerError
                /\ rsp[s].body = NoDataBody
                /\ rsp[s].header[contentTypeHeader] # ProtoAcceptContent
                /\ ~obs[s].encoded

\* Both scrapers have been answered before any Report call stored a value.
C2_Witness ==
    /\ log = <<>>
    /\ \A s \in Scrapers : Responded(s) /\ rsp[s].body = NoDataBody

\* C2 as the specification words it: the body is the fixed prefix followed
\* by "no metrics available yet" and nothing else.
C2_Original ==
    log = <<>> =>
        \A s \in Scrapers :
            Responded(s) =>
                /\ rsp[s].code = StatusInternalServerError
                /\ rsp[s].body = ErrorPrefix \o NoMetricsYet
                /\ ~obs[s].encoded

\* C3. Monotonic replacement: when the Report calls so far ran one after the
\* other, the k-th value stored is the k-th call's; once N >= 1 calls have
\* completed and none is running the cell holds the N-th call's value; and
\* a successful response whose fetch followed the N-th store decodes to
\* exactly the N-th call's value.
C3_MonotonicReplacement ==
    ~overlapped =>
        /\ \A k \in 1..Len(log) : log[k].id = k
        /\ (Quiet /\ Len(log) >= 1) =>
               (nCalls = Len(log) /\ stat = log[nCalls].stat)
        /\ \A s \in Scrapers :
               Fetched(s) =>
                   /\ obs[s].load = 0 => loaded[s] = Nil
                   /\ obs[s].load >= 1 => loaded[s] = log[obs[s].load].stat
                   /\ (Succeeded(s) /\ obs[s].load >= 1) =>
                          Unmarshal(rsp[s].body) = log[obs[s].load].stat

\* Two calls have completed in turn with different values, none is running,
\* and a scrape that fetched after the second has been answered.
C3_Witness ==
    /\ ~overlapped /\ Quiet /\ Len(log) = 2
    /\ log[1].stat.RequestCount # log[2].stat.RequestCount
    /\ log[1].stat.ProcessUptime # log[2].stat.ProcessUptime
    /\ \E s \in Scrapers : Succeeded(s) /\ obs[s].load = 2

\* q is the float64 quotient of the count c by the period of `ms`
\* milliseconds, stated by cross-multiplication.
IsRate(q, c, ms) ==
    IF c = NaN THEN q = NaN
    ELSE IF ms = 0
         THEN q = (IF c[1] = 0 THEN NaN ELSE IF c[1] > 0 THEN PosInf ELSE NegInf)
    ELSE IF ~IsFinite(c)
         THEN q = (IF (c[1] > 0) = (ms > 0) THEN PosInf ELSE NegInf)
    ELSE /\ IsFinite(q)
         /\ q[2] > 0
         /\ q[1] * c[2] * ms = c[1] * Second * q[2]

\* C4. Rate computation: every value a Report call stores has RequestCount
\* and ProxiedRequestCount equal to the report's counts divided by the
\* period, in seconds, the reporter was constructed with, unrounded.
C4_RateComputation ==
    \A k \in 1..Len(log) :
        /\ IsRate(log[k].stat.RequestCount, log[k].stats.RequestCount,
                  ctorArgs.reportingPeriod)
        /\ IsRate(log[k].stat.ProxiedRequestCount,
                  log[k].stats.ProxiedRequestCount, ctorArgs.reportingPeriod)

\* The specification's scenario: 120 requests, none proxied, over 60 s are
\* published as 2.0 and 0.0 and held by the cell.
C4_Witness ==
    /\ ctorArgs.reportingPeriod = 60 * Second
    /\ Len(log) >= 1
    /\ log[Len(log)].stats.RequestCount = F(120)
    /\ log[Len(log)].stats.ProxiedRequestCount = Zero
    /\ stat # Nil /\ stat.RequestCount = F(2) /\ stat.ProxiedRequestCount = Zero

\* C5. Pass-through: every value a Report call stores carries the report's
\* AverageConcurrency and AverageProxiedConcurrency unchanged, whatever the
\* period.
C5_PassThrough ==
    \A k \in 1..Len(log) :
        /\ log[k].stat.AverageConcurrentRequests
               = log[k].stats.AverageConcurrency
        /\ log[k].stat.AverageProxiedConcurrentRequests
               = log[k].stats.AverageProxiedConcurrency

\* A reporter with a period other than one second holds a value whose
\* concurrency is the reported 3/2.
C5_Witness ==
    /\ ctorArgs.reportingPeriod # Second
    /\ Len(log) >= 1
    /\ log[Len(log)].stats.AverageConcurrency = <<3, 2>>
    /\ stat # Nil /\ stat.AverageConcurrentRequests = <<3, 2>>

\* C6. Identity stability: the value the cell holds, and the value every
\* successful response decodes to, has the pod name the constructor was
\* given.
C6_IdentityStability ==
    /\ stat # Nil => stat.PodName = ctorArgs.pod
    /\ \A s \in Scrapers :
          Succeeded(s) => Unmarshal(rsp[s].body).PodName = ctorArgs.pod

\* After two Report calls a scrape has been answered with the pod's name.
C6_Witness ==
    /\ ctorArgs.pod = "pod-a" /\ Len(log) = 2
    /\ \E s \in Scrapers :
          Succeeded(s) /\ Unmarshal(rsp[s].body).PodName = "pod-a"

\* C7. Every constructed reporter has reportingPeriodSeconds > 0, whatever
\* reportingPeriod the constructor was given.
C7_PositivePeriod == FGt(reportingPeriodSeconds, Zero)

\* The text of an error response's body for the message msg, as the
\* specification words it, and with the newline that ends it.
SpecErrorBody(msg) == "An error has occurred while serving metrics:\n\n" \o msg
ErrorBody(msg) == SpecErrorBody(msg) \o "\n"

\* The three answers of ServeHTTP, the error bodies given by body(_).
ThreeResponses(body(_)) ==
    \A s \in Scrapers :
        Responded(s) =>
            IF loaded[s] = Nil
            THEN /\ rsp[s].code = StatusInternalServerError
                 /\ rsp[s].body = body("no metrics available yet")
                 /\ rsp[s].header[contentTypeHeader] # ProtoAcceptContent
                 /\ ~obs[s].encoded
            ELSE IF obs[s].err # ""
            THEN /\ rsp[s].code = StatusInternalServerError
                 /\ rsp[s].body = body(obs[s].err)
                 /\ rsp[s].header[contentTypeHeader] # ProtoAcceptContent
                 /\ obs[s].encoded
            ELSE /\ rsp[s].code = StatusOK
                 /\ rsp[s].header[contentTypeHeader] = "application/protobuf"
                 /\ Unmarshal(rsp[s].body) = loaded[s]
                 /\ rsp[s].body = Marshal(loaded[s])
                 /\ obs[s].encoded

\* C8. Each ServeHTTP call gives one of three answers, decided by what its
\* one fetch returned and by the codec: nil, status 500 with the no-data
\* message; a value the codec rejects, status 500 with the codec's error
\* text; a value the codec accepts, status 200, the protobuf content type
\* and the encoding of the fetched value. Either error body is the fixed
\* prefix, the message and the newline that ends it; only the third answer
\* carries the protobuf content type and encoded bytes.
C8_ThreeResponses == ThreeResponses(ErrorBody)

\* One scrape was answered with the codec's error and the other with the
\* encoding of a value, after an earlier one had found the cell empty.
C8_Witness ==
    /\ failed /\ Len(log) >= 1 /\ log[1].afterError
    /\ \E s, u \in Scrapers :
          /\ Responded(s) /\ loaded[s] # Nil /\ obs[s].err # ""
          /\ Succeeded(u) /\ rsp[u].body # <<>>

\* C8 as the specification words it: an error body ends with the message.
C8_Original == ThreeResponses(SpecErrorBody)

\* A step of scraper s's ServeHTTP call.
ServeStep(s) == pcS'[s] # pcS[s]

\* C9. ServeHTTP only reads the shared state: no step of a ServeHTTP call,
\* whichever answer it ends in, changes the cell or the reporter's identity,
\* or another call's fetched value or response; so two calls that fetch with
\* no store in between fetch the same value.
C9_ServeReadOnly ==
    /\ [][\A s \in Scrapers :
              ServeStep(s) =>
                  /\ stat' = stat
                  /\ reporter' = reporter
                  /\ \A u \in Scrapers \ {s} :
                        loaded'[u] = loaded[u] /\ rsp'[u] = rsp[u]]_vars
    /\ [](\A s, u \in Scrapers :
              (Fetched(s) /\ Fetched(u) /\ obs[s].load = obs[u].load) =>
                  loaded[s] = loaded[u])

\* Two scrapes that fetched the same held value have both been answered,
\* one with the codec's error and one with the encoding.
C9_Witness ==
    /\ Responded("s1") /\ Responded("s2")
    /\ obs["s1"].load = obs["s2"].load /\ obs["s1"].load >= 1
    /\ loaded["s1"] = loaded["s2"] /\ stat = loaded["s1"]
    /\ rsp["s1"].code # rsp["s2"].code

\* A step in which scraper s's ServeHTTP call ends in an error response.
ServeFails(s) ==
    /\ pcS[s] = "respond" /\ pcS'[s] = "done"
    /\ rsp'[s].code = StatusInternalServerError

\* C10. Errors are not sticky: a ServeHTTP call that ends in an error
\* response changes nothing but its own response and is over (its next step
\* is a new call on a fresh writer); a Report call running afterwards still
\* stores its value; and a call that fetches after a store answers with
\* status 200 and the stored value whenever the codec accepts it, whatever
\* errors came before.
C10_ErrorsNotSticky ==
    /\ [][\A s \in Scrapers :
              /\ ServeFails(s) =>
                    /\ stat' = stat /\ reporter' = reporter
                    /\ pcR' = pcR /\ built' = built /\ log' = log
                    /\ \A u \in Scrapers \ {s} :
                          pcS'[u] = pcS[u] /\ rsp'[u] = rsp[u]
              /\ (Responded(s) /\ ServeStep(s)) =>
                    (pcS'[s] = "load" /\ rsp'[s] = NoResponse)]_vars
    /\ [][\A p \in Producers :
              (failed /\ pcR[p] = "store" /\ pcR'[p] # "store") =>
                  (stat' = built[p] /\ Len(log') = Len(log) + 1)]_vars
    /\ [](\A p \in Producers :
              (failed /\ pcR[p] = "store") => ENABLED ReportStore(p))
    /\ [](\A s \in Scrapers :
              (Responded(s) /\ obs[s].load >= 1 /\ obs[s].err = "") =>
                  /\ rsp[s].code = StatusOK
                  /\ Unmarshal(rsp[s].body) = log[obs[s].load].stat)

\* After an error response a Report call stored a value, and a scrape that
\* fetched it was answered with status 200.
C10_Witness ==
    /\ failed
    /\ \E s \in Scrapers :
          /\ Succeeded(s) /\ obs[s].load >= 1
          /\ log[obs[s].load].afterError

\* v is the value Report publishes for the report r: the rates of r's counts
\* over the constructor's period, r's concurrency averages and the
\* constructor's pod name.
BuiltFrom(v, r) ==
    /\ v # Nil
    /\ v.PodName = ctorArgs.pod
    /\ IsRate(v.RequestCount, r.RequestCount, ctorArgs.reportingPeriod)
    /\ IsRate(v.ProxiedRequestCount, r.ProxiedRequestCount,
              ctorArgs.reportingPeriod)
    /\ v.AverageConcurrentRequests = r.AverageConcurrency
    /\ v.AverageProxiedConcurrentRequests = r.AverageProxiedConcurrency

\* C11. Report has no error path: an idle producer can call it with any
\* report, negative, infinite or NaN values included; a call that has begun
\* can always store; and when it returns the cell holds the value built from
\* its report, those values in it unvalidated.
C11_IngestNoErrorPath ==
    /\ [](\A p \in Producers :
              /\ (pcR[p] = "idle" /\ nCalls < MaxReports) =>
                     \A r \in RequestStatsReports : ENABLED ReportBuild(p, r)
              /\ pcR[p] = "store" => ENABLED ReportStore(p))
    /\ [][\A p \in Producers :
              (pcR[p] = "store" /\ pcR'[p] = "idle") =>
                  /\ stat' = built[p]
                  /\ BuiltFrom(stat', arg[p].stats)]_vars

\* A report with a negative count, an infinite count and a NaN average has
\* been published as it came.
C11_Witness ==
    /\ Quiet /\ stat # Nil /\ ctorArgs.reportingPeriod = 60 * Second
    /\ stat.RequestCount = <<-1, 2>>
    /\ stat.ProxiedRequestCount = PosInf
    /\ stat.AverageProxiedConcurrentRequests = NaN
    /\ BuiltFrom(stat, log[Len(log)].stats)

\* The value the cell holds once the first k stores have been made.
HeldAfter(k) == IF k = 0 THEN Nil ELSE log[k].stat

\* C12. Freshness: the value a ServeHTTP call fetches, and answers with, is
\* the one the cell held when the call began or one stored while the call
\* was running; it is never a value that a store had already replaced
\* before the call began, and never a mixture.
C12_Freshness ==
    \A s \in Scrapers :
        Fetched(s) =>
            /\ obs[s].begin <= obs[s].load /\ obs[s].load <= Len(log)
            /\ loaded[s] = HeldAfter(obs[s].load)
            /\ \A k \in 1..Len(log) :
                  (k < obs[s].begin /\ log[k].stat # HeldAfter(obs[s].begin)
                       /\ \A j \in (obs[s].begin + 1)..Len(log) :
                              log[j].stat # log[k].stat)
                      => loaded[s] # log[k].stat
            /\ Succeeded(s) =>
                  /\ obs[s].load >= 1
                  /\ Unmarshal(rsp[s].body) = HeldAfter(obs[s].load)

\* A scrape that began when the cell held one value has been answered with
\* a different one, stored while it was running.
C12_Witness ==
    \E s \in Scrapers :
        /\ Succeeded(s) /\ obs[s].begin = 1 /\ obs[s].load = 2
        /\ log[1].stat # log[2].stat
        /\ Unmarshal(rsp[s].body) = log[2].stat

\* C13. Last publisher wins: whatever the order Report calls began in, the
\* cell holds the value of the call whose store came last; when all calls
\* have returned that is the last call to complete; and the cell's content
\* is always, whole, the value one of the calls built from its report.
C13_LastPublisherWins ==
    /\ stat = HeldAfter(Len(log))
    /\ (Quiet /\ nCalls >= 1) =>
           (Len(log) = nCalls /\ stat = log[nCalls].stat)
    /\ stat # Nil =>
           \E k \in 1..Len(log) :
               stat = log[k].stat /\ BuiltFrom(stat, log[k].stats)

\* Two calls overlapped, the one that began first stored last, and the cell
\* holds its value and not the other's.
C13_Witness ==
    /\ overlapped /\ Quiet /\ Len(log) = 2
    /\ log[1].id = 2 /\ log[2].id = 1
    /\ log[1].stat # log[2].stat
    /\ FGt(log[1].stat.ProcessUptime, log[2].stat.ProcessUptime)
    /\ stat = log[2].stat

\* C14. Non-blocking progress: every step of Report and ServeHTTP is enabled
\* by the call's own position alone, and a call whose own steps are taken
\* when enabled completes, however many other calls run or have stalled: the
\* fairly scheduled producer and scraper are again and again outside a call,
\* so none of their calls stays in flight for ever.
C14_NonBlocking ==
    /\ [](\A p \in Producers : pcR[p] = "store" => ENABLED ReportStore(p))
    /\ [](\A s \in Scrapers :
              /\ pcS[s] = "load" => ENABLED ServeLoad(s)
              /\ pcS[s] = "respond" =>
                     \E encErr \in EncoderErrors \cup {""} :
                         ENABLED ServeRespond(s, encErr))
    /\ []<>(pcR["p1"] = "idle")
    /\ []<>(pcS["s1"] \in {"idle", "done"})

\* While producer p2 is stalled in the middle of the first Report call, the
\* second call has been made and has returned, and a scrape has been
\* answered with its value.
C14_Witness ==
    /\ pcR["p2"] = "store" /\ arg["p2"].id = 1
    /\ pcR["p1"] = "idle" /\ Len(log) = 1 /\ log[1].id = 2
    /\ Succeeded("s1") /\ obs["s1"].load = 1

\* A step of producer p's Report call.
ReportStep(p) == pcR'[p] # pcR[p]

\* C15. The reporter's identity is frozen: instanceName, startTime and
\* reportingPeriodSeconds are what the constructor set in every state, no
\* step changes them, and a step of a Report call changes, of the state the
\* calls share, the cell only (and that in its Store step only): no
\* ServeHTTP call's position, fetched value or response, and no other Report
\* call's value being built.
C15_IdentityFrozen ==
    /\ [](reporter = <<ctorArgs.pod, 0, Seconds(ctorArgs.reportingPeriod)>>)
    /\ [][/\ reporter' = reporter
          /\ \A p \in Producers :
                ReportStep(p) =>
                    /\ pcS' = pcS /\ loaded' = loaded /\ rsp' = rsp
                    /\ pcR[p] = "idle" => stat' = stat
                    /\ \A q \in Producers \ {p} :
                          pcR'[q] = pcR[q] /\ built'[q] = built[q]]_vars

\* Two Report calls have returned and a scrape has been answered, half a
\* second after the construction with a period of half a second; the held
\* value differs from the first one stored, and the identity is as
\* constructed.
C15_Witness ==
    /\ Quiet /\ Len(log) = 2 /\ stat = log[2].stat /\ log[1].stat # stat
    /\ now = Second \div 2
    /\ ctorArgs = [pod |-> "", reportingPeriod |-> Second \div 2]
    /\ reporter = <<"", 0, <<1, 2>>>>
    /\ \E s \in Scrapers : Succeeded(s)

\* C16. The cell never returns to empty: it is empty exactly while no Report
\* call has stored, no step empties it once it holds a value, and a
\* ServeHTTP call that begins after a Report call has returned fetches a
\* value and never answers with the no-data error.
C16_NeverEmptyAgain ==
    /\ [](stat = Nil <=> Len(log) = 0)
    /\ [][stat # Nil => stat' # Nil]_vars
    /\ [](\A s \in Scrapers :
              (Fetched(s) /\ obs[s].begin >= 1) =>
                  /\ loaded[s] # Nil
                  /\ (Responded(s) /\ rsp[s].code = StatusInternalServerError)
                         => rsp[s].body # NoDataBody)

\* The first store came after a scrape was answered with the no-data error;
\* a scrape begun after that store has fetched the stored value and has been
\* answered, with it or with the codec's error.
C16_Witness ==
    /\ Len(log) >= 1 /\ log[1].afterError
    /\ Responded("s1") /\ obs["s1"].begin >= 1
    /\ loaded["s1"] = log[obs["s1"].load].stat
    /\ rsp["s1"].code = StatusInternalServerError
    /\ rsp["s1"].body = ErrorBody("proto: invalid UTF-8 string")

\* C17. Scrapes never go back in time: the stores are numbered in the order
\* they were made, and served is the highest number a completed scrape has
\* answered with.  A scrape that begins after those scrapes completed begins
\* when at least that many stores have been made, and when it succeeds its
\* answer is the value of a store numbered no lower, made no earlier than
\* the scrape began; so served never decreases.
C17_NoTimeTravel ==
    /\ [](/\ served <= Len(log)
          /\ \A s \in Scrapers :
                pcS[s] \in {"load", "respond"} => served <= obs[s].begin)
    /\ [][/\ served' >= served
          /\ \A s \in Scrapers :
                (pcS[s] = "respond" /\ Succeeded(s)') =>
                    \E k \in 1..Len(log) :
                        /\ k >= served /\ k >= obs[s].begin
                        /\ Unmarshal(rsp'[s].body) = log[k].stat]_vars

\* A scrape was answered with the first stored value; one that began after
\* the second store has fetched the second value, which differs.
C17_Witness ==
    /\ served = 1 /\ Len(log) = 2 /\ log[1].stat # log[2].stat
    /\ pcS["s1"] = "respond" /\ obs["s1"].begin = 2
    /\ loaded["s1"] = log[2].stat

\* The uptime a successful response reports.
ReportedUptime(s) == Unmarshal(rsp[s].body).ProcessUptime

\* C18. With one producer and a clock that does not go back, the uptime
\* never decreases: each Report call reads it before it stores, so it is at
\* most the reporter's age; the stored values carry non-decreasing uptimes
\* in the order of the stores; no step lowers the held value's uptime; and
\* of two successful scrapes the one that fetched after no fewer stores
\* reports no smaller an uptime.
C18_UptimeMonotonic ==
    /\ [](/\ \A p \in Timer :
                pcR[p] = "store" =>
                    ~FGt(built[p].ProcessUptime, Since(startTime, now))
          /\ stat # Nil => ~FGt(stat.ProcessUptime, Since(startTime, now))
          /\ \A i, j \in 1..Len(log) :
                i <= j => ~FGt(log[i].stat.ProcessUptime,
                               log[j].stat.ProcessUptime)
          /\ \A s, u \in Scrapers :
                (Succeeded(s) /\ Succeeded(u) /\ obs[s].load <= obs[u].load)
                    => ~FGt(ReportedUptime(s), ReportedUptime(u)))
    /\ [][(stat # Nil /\ stat' # Nil) =>
              ~FGt(stat.ProcessUptime, stat'.ProcessUptime)]_vars

\* Two values were stored half a second apart; a scrape answered with the
\* first reports an uptime of 0, one answered with the second reports half a
\* second.
C18_Witness ==
    /\ Len(log) = 2 /\ stat = log[2].stat
    /\ Succeeded("s1") /\ obs["s1"].load = 1
    /\ Succeeded("s2") /\ obs["s2"].load = 2
    /\ ReportedUptime("s1") = Zero
    /\ ReportedUptime("s2") = <<1, 2>>

====
